---- MODULE Spec2Model ----
(***************************************************************************)
(* Model of romatotti/hls:                                                 *)
(*   internal/segment/segment.go   - Segment (Append, Finalize, Release,   *)
(*                                   accessors)                            *)
(*   internal/fmp4/makefragment.go - TrackFragmenter.makeFragment          *)
(*                                                                         *)
(* SegSpec  : one producer goroutine calling Append / Finalize / Release   *)
(*            and one reader goroutine calling the accessors.  The         *)
(*            producer's methods are split at the points where s.mu is     *)
(*            taken and given back, so that every interleaving with the    *)
(*            reader is a behaviour.                                       *)
(* FragSpec : one TrackFragmenter; packets arrive, makeFragment is called. *)
(***************************************************************************)
EXTENDS Integers, Sequences, FiniteSets, TLC

\* ------------------------------------------------------------------ bounds
MaxParts == 3
MaxStart == 1
MaxNext == 2
MaxPending == 4
MaxTime == 3
MaxTracks == 2
MaxSamples == 2
MaxComponents == 4
MaxId == 40
MaxPart == 11

VARIABLES
    \* Segment fields (segment.go:19-33)
    start, parts, f, final, size, dur, mu,
    \* the unlinked temporary file behind s.f, and which parts' writes succeeded
    store, committed,
    \* the producer goroutine: position, locals of the call in progress, value the last call returned
    ppc, call, ret,
    \* the reader goroutine: accessor in progress and what the last accessor returned
    rpc, obs,
    \* TrackFragmenter fields (makefragment.go:17-28) and the value the last call returned
    timeScale, isVideo, pending, flast, result,
    \* writeFragment (makefragment.go:124-162): its tracks argument, the buffer b, the
    \* data offsets moof.Marshal serialized, position in the function, the loop
    \* indices, what the io.Writer accepted, the outcome of each Write, the error returned
    wtracks, wbuf, wmarshal, wpc, wpos, sink, wlog, wret,
    \* ParseName (segment.go:56-75): the file name at hand, the (id, part) it was
    \* built from when the program built it, and what ParseName returned for it
    name, built, parsed,
    \* Segment's fields set by New (segment.go:20-24) and a caller of Format
    \* (segment.go:127-149): its position, its includeParts argument and the
    \* lines it has put into the buffer
    segid, dcn, baseName, programTime, fpc, fargs, out,
    \* one track's history: the packets that arrived and the fragments
    \* makeFragment returned, each with the packet it left pending
    arrived, frags

segVars == <<start, parts, f, final, size, dur, mu, store, committed, ppc, call, ret, rpc, obs>>
fragVars == <<timeScale, isVideo, pending, flast, result>>
writeVars == <<wtracks, wbuf, wmarshal, wpc, wpos, sink, wlog, wret>>
vars == <<start, parts, f, final, size, dur, mu, store, committed, ppc, call, ret, rpc, obs,
          timeScale, isVideo, pending, flast, result,
          wtracks, wbuf, wmarshal, wpc, wpos, sink, wlog, wret,
          name, built, parsed,
          segid, dcn, baseName, programTime, fpc, fargs, out,
          arrived, frags>>
nameVars == <<name, built, parsed>>
fmtVars == <<segid, dcn, baseName, programTime, fpc, fargs, out>>
chainVars == <<arrived, frags>>

\* what the Segment's methods leave alone, and what the fragmenter's do
notSegVars == <<fragVars, writeVars, nameVars, fmtVars, chainVars>>
notFragVars == <<segVars, writeVars, nameVars, fmtVars, chainVars>>
notWriteVars == <<segVars, fragVars, nameVars, fmtVars, chainVars>>
notNameVars == <<segVars, fragVars, writeVars, fmtVars, chainVars>>

\* =====================================================================
\*  Segment
\* =====================================================================

\* A nil []byte.  Every fragment handed to Append carries a non-empty buffer.
NilBytes == << >>

\* fmp4.RawFragment values handed to Append: Length is len(Bytes).
Frags ==
    { [Bytes |-> <<1>>, Length |-> 1, Duration |-> 1, Independent |-> TRUE],
      [Bytes |-> <<2, 3>>, Length |-> 2, Duration |-> 2, Independent |-> FALSE] }

NoCall == [op |-> "none", frag |-> [Bytes |-> NilBytes, Length |-> 0, Duration |-> 0, Independent |-> FALSE],
           next |-> 0, idx |-> 0, preParts |-> 0, preSize |-> 0]

Accessors == {"Duration", "Final", "Parts"}

\* what the reader holds before its first accessor returns
NoObs == [acc |-> "none", parts |-> 0, final |-> FALSE, dur |-> 0]

RECURSIVE SumLengths(_, _)
\* sum of parts[i].Length over the indices i in S
SumLengths(ps, S) ==
    IF S = {} THEN 0
    ELSE LET i == CHOOSE j \in S : TRUE
         IN ps[i].Length + SumLengths(ps, S \ {i})

\* segment.New: empty part list, open backing file, nothing final (and a fragmenter
\* that stays untouched)
SegInit ==
    /\ start \in 0..MaxStart
    /\ parts = << >>
    /\ f = "open"
    /\ final = FALSE
    /\ size = 0
    /\ dur = 0
    /\ mu = "free"
    /\ store = << >>
    /\ committed = {}
    /\ ppc = "idle"
    /\ call = NoCall
    /\ ret = "none"
    /\ rpc = "idle"
    /\ obs = NoObs
    /\ timeScale = 1
    /\ isVideo = FALSE
    /\ pending = << >>
    /\ flast = "none"
    /\ result = [trackFrag |-> << >>, packets |-> << >>]
    /\ wtracks = << >>
    /\ wbuf = << >>
    /\ wmarshal = << >>
    /\ wpc = "idle"
    /\ wpos = [track |-> 0, packet |-> 0]
    /\ sink = << >>
    /\ wlog = << >>
    /\ wret = [returned |-> FALSE, err |-> FALSE, write |-> 0]
    /\ name = << >>
    /\ built = [by |-> "none", id |-> 0, part |-> 0]
    /\ parsed = [done |-> FALSE, id |-> 0, part |-> 0, ok |-> FALSE]
    /\ segid = 0
    /\ dcn = FALSE
    /\ baseName = <<"0">>
    /\ programTime = ""
    /\ fpc = "idle"
    /\ fargs = FALSE
    /\ out = << >>
    /\ arrived = << >>
    /\ frags = << >>

\* ---- Append (segment.go:78-85)

\* s.mu.Lock()
AppendLock(frag) ==
    /\ ppc = "idle"
    /\ mu = "free"
    /\ Len(parts) < MaxParts
    /\ mu' = "producer"
    /\ ppc' = "append_locked"
    /\ call' = [op |-> "Append", frag |-> frag, next |-> 0, idx |-> 0,
                preParts |-> Len(parts), preSize |-> size]
    /\ ret' = "none"
    /\ UNCHANGED <<start, parts, f, final, size, dur, store, committed, rpc, obs>>
    /\ UNCHANGED notSegVars

\* the parts Append leaves in s.parts
AppendedParts(ps, frag) == Append(ps, frag)

\* the size Append leaves in s.size
AppendedSize(sz, frag) == sz + frag.Length

\* s.parts = append(s.parts, frag); s.size += int64(frag.Length); s.mu.Unlock()
AppendMeta ==
    /\ ppc = "append_locked"
    /\ parts' = AppendedParts(parts, call.frag)
    /\ size' = AppendedSize(size, call.frag)
    /\ mu' = "free"
    /\ ppc' = "append_write"
    /\ call' = [call EXCEPT !.idx = Len(parts) + 1]
    /\ UNCHANGED <<start, f, final, dur, store, committed, ret, rpc, obs>>
    /\ UNCHANGED notSegVars

\* _, err := s.f.Write(frag.Bytes); return err     -- the write succeeds
AppendWriteOk ==
    /\ ppc = "append_write"
    /\ f = "open"
    /\ store' = store \o call.frag.Bytes
    /\ committed' = committed \cup {call.idx}
    /\ ret' = "nil"
    /\ ppc' = "idle"
    /\ call' = NoCall
    /\ UNCHANGED <<start, parts, f, final, size, dur, mu, rpc, obs>>
    /\ UNCHANGED notSegVars

\* the write fails: on an open file after n < len(Bytes) bytes went out,
\* on a nil *os.File (after Release) with os.ErrInvalid and no bytes
AppendWriteFail ==
    /\ ppc = "append_write"
    /\ IF f = "open"
       THEN \E n \in 0..(Len(call.frag.Bytes) - 1) :
                /\ store' = store \o SubSeq(call.frag.Bytes, 1, n)
                /\ ret' = "write error"
       ELSE /\ store' = store
            /\ ret' = "ErrInvalid"
    /\ ppc' = "idle"
    /\ call' = NoCall
    /\ UNCHANGED <<start, parts, f, final, size, dur, mu, committed, rpc, obs>>
    /\ UNCHANGED notSegVars

\* ---- Finalize (segment.go:103-115)

FinalizeLock(nextSegment) ==
    /\ ppc = "idle"
    /\ mu = "free"
    /\ mu' = "producer"
    /\ ppc' = "finalize_locked"
    /\ call' = [op |-> "Finalize", frag |-> NoCall.frag, next |-> nextSegment, idx |-> 0,
                preParts |-> Len(parts), preSize |-> size]
    /\ ret' = "none"
    /\ UNCHANGED <<start, parts, f, final, size, dur, store, committed, rpc, obs>>
    /\ UNCHANGED notSegVars

\* Finalize recording the next segment's start instead of the distance to it
FinalDuration_NoSubtract(d, st, nextSegment) ==
    IF nextSegment > st THEN nextSegment ELSE d

\* if nextSegment > s.start { s.dur = nextSegment - s.start }
FinalDuration(d, st, nextSegment) ==
    IF nextSegment > st THEN nextSegment - st ELSE d

\* for i := range s.parts { s.parts[i].Bytes = nil }
DiscardBuffers(ps) ==
    [i \in 1..Len(ps) |-> [ps[i] EXCEPT !.Bytes = NilBytes]]

FinalizeBody ==
    /\ ppc = "finalize_locked"
    /\ final' = TRUE
    /\ dur' = FinalDuration(dur, start, call.next)
    /\ parts' = DiscardBuffers(parts)
    /\ mu' = "free"
    /\ ppc' = "idle"
    /\ call' = NoCall
    /\ UNCHANGED <<start, f, size, store, committed, ret, rpc, obs>>
    /\ UNCHANGED notSegVars

\* ---- Release (segment.go:118-124)

ReleaseLock ==
    /\ ppc = "idle"
    /\ mu = "free"
    /\ mu' = "producer"
    /\ ppc' = "release_locked"
    /\ call' = [op |-> "Release", frag |-> NoCall.frag, next |-> 0, idx |-> 0,
                preParts |-> Len(parts), preSize |-> size]
    /\ ret' = "none"
    /\ UNCHANGED <<start, parts, f, final, size, dur, store, committed, rpc, obs>>
    /\ UNCHANGED notSegVars

\* s.size = 0; s.f.Close(); s.f = nil -- closing the unlinked file gives its bytes back to the OS
ReleaseBody ==
    /\ ppc = "release_locked"
    /\ size' = 0
    /\ f' = "nil"
    /\ store' = << >>
    /\ committed' = {}
    /\ mu' = "free"
    /\ ppc' = "idle"
    /\ call' = NoCall
    /\ UNCHANGED <<start, parts, final, dur, ret, rpc, obs>>
    /\ UNCHANGED notSegVars

\* ---- accessors (segment.go:94-100): no lock is taken

\* the reader goroutine enters Duration(), Final() or Parts()
AccessorCall(a) ==
    /\ rpc = "idle"
    /\ rpc' = a
    /\ UNCHANGED <<start, parts, f, final, size, dur, mu, store, committed, ppc, call, ret, obs>>
    /\ UNCHANGED notSegVars

\* return s.dur / return s.final / return len(s.parts)
AccessorReturn ==
    /\ rpc \in Accessors
    /\ obs' = CASE rpc = "Duration" -> [NoObs EXCEPT !.acc = rpc, !.dur = dur]
                [] rpc = "Final" -> [NoObs EXCEPT !.acc = rpc, !.final = final]
                [] rpc = "Parts" -> [NoObs EXCEPT !.acc = rpc, !.parts = Len(parts)]
    /\ rpc' = "idle"
    /\ UNCHANGED <<start, parts, f, final, size, dur, mu, store, committed, ppc, call, ret>>
    /\ UNCHANGED notSegVars

\* =====================================================================
\*  TrackFragmenter
\* =====================================================================

\* ticks of time.Duration per second; the model counts time in half seconds
TimeBase == 2

\* the tracks a fragmenter is created for: an audio track at 1 tick per second
\* and a video track at 2 ticks per second
Tracks == { [isVideo |-> FALSE, timeScale |-> 1], [isVideo |-> TRUE, timeScale |-> 2] }

\* timescale.ToScale: rescale a decode time to the track's timescale, rounding down
ToScale(t, scale) == (t * scale) \div TimeBase

\* timescale.Relative: the same rescale of a signed offset; the sign is kept, so
\* an offset below zero is below zero in ticks (\div rounds down)
Relative(t, scale) == (t * scale) \div TimeBase

\* fmp4io sample flags
SampleNoDependencies == 33554432
SampleNonKeyframe == 16842752

\* av.Packet values the caller feeds: payloads of 0, 1 and 2 bytes; composition
\* offsets of half a second back, none, and a second forward
Payloads == { << >>, <<7>>, <<8, 9>> }
CompTimes == {-1, 0, 2}
Packets(times) ==
    [Time : times, CompositionTime : CompTimes, Data : Payloads, IsKeyFrame : BOOLEAN]

\* fragmentWithData{}
NoResult == [trackFrag |-> << >>, packets |-> << >>]

ZeroEntry == [Duration |-> 0, Size |-> 0, Flags |-> 0, CTS |-> 0]

\* makefragment.go:26-29
DefaultSampleFlags(video) == IF video THEN SampleNonKeyframe ELSE SampleNoDependencies

\* makefragment.go:30-43: the track fragment before any sample is added
NewTrackFrag(startDTS, entryCount) ==
    [Header |-> [Flags |-> {"TrackFragDefaultBaseIsMOOF"}, TrackID |-> 1,
                 DefaultDuration |-> 0, DefaultSize |-> 0, DefaultFlags |-> 0],
     DecodeTime |-> [Version |-> 1, Time |-> startDTS],
     Run |-> [Version |-> 0, Flags |-> {"TrackRunDataOffset"}, DataOffset |-> 0,
              FirstSampleFlags |-> 0, Entries |-> [j \in 1..entryCount |-> ZeroEntry]]]

\* a sample duration that is the next decode time, not the distance to it
SampleDuration_Absolute(nextDTS, curDTS) == nextDTS

\* makefragment.go:50-57: the run entry of a packet; the uint32 conversions keep
\* every value the model reaches (0 <= v < 2^31)
SampleDuration(nextDTS, curDTS) == nextDTS - curDTS
SampleSize(pkt) == Len(pkt.Data)
SampleFlags(pkt, defaultFlags) == IF pkt.IsKeyFrame THEN SampleNoDependencies ELSE defaultFlags

\* a default that a differing later sample does not clear
ClearedDefault_Kept(default, value) == default

\* makefragment.go:66-68 and 69-71: a later sample that differs clears the default
ClearedDefault(default, value) == IF value # default THEN 0 ELSE default

\* header defaults whose flags default is seeded by sample 0 and never re-seeded by sample 1
HeaderAfter_FlagsFromFirst(hdr, i, entry) ==
    IF i = 0
    THEN [hdr EXCEPT !.DefaultDuration = entry.Duration,
                     !.DefaultSize = entry.Size,
                     !.DefaultFlags = entry.Flags]
    ELSE [hdr EXCEPT !.DefaultDuration = ClearedDefault(hdr.DefaultDuration, entry.Duration),
                     !.DefaultSize = ClearedDefault(hdr.DefaultSize, entry.Size),
                     !.DefaultFlags = ClearedDefault(hdr.DefaultFlags, entry.Flags)]

\* makefragment.go:58-79: the header defaults and first-sample flags after sample i (0-based)
HeaderAfter(hdr, i, entry) ==
    IF i = 0
    THEN [hdr EXCEPT !.DefaultDuration = entry.Duration,
                     !.DefaultSize = entry.Size,
                     !.DefaultFlags = entry.Flags]
    ELSE [hdr EXCEPT !.DefaultDuration = ClearedDefault(hdr.DefaultDuration, entry.Duration),
                     !.DefaultSize = ClearedDefault(hdr.DefaultSize, entry.Size),
                     !.DefaultFlags = IF i = 1 THEN entry.Flags
                                      ELSE ClearedDefault(hdr.DefaultFlags, entry.Flags)]

\* a run whose version follows offsets above zero instead of below
RunAfterCTS_PositiveVersion(run, pkt, scale) ==
    IF pkt.CompositionTime # 0
    THEN [run EXCEPT !.Flags = run.Flags \cup {"TrackRunSampleCTS"},
                     !.Version = IF Relative(pkt.CompositionTime, scale) > 0 THEN 1 ELSE run.Version]
    ELSE run

\* makefragment.go:80-89: composition time of sample i
RunAfterCTS(run, pkt, scale) ==
    IF pkt.CompositionTime # 0
    THEN [run EXCEPT !.Flags = run.Flags \cup {"TrackRunSampleCTS"},
                     !.Version = IF Relative(pkt.CompositionTime, scale) < 0 THEN 1 ELSE run.Version]
    ELSE run

EntryCTS(pkt, scale) ==
    IF pkt.CompositionTime # 0 THEN Relative(pkt.CompositionTime, scale) ELSE 0

RECURSIVE AddSamples(_, _, _, _, _, _, _)
\* makefragment.go:45-93: the loop over f.pending[:entryCount], from sample i on
AddSamples(track, pend, i, entryCount, curDTS, scale, defaultFlags) ==
    IF i >= entryCount THEN track
    ELSE LET pkt == pend[i + 1]
             nextDTS == ToScale(pend[i + 2].Time, scale)
             entry == [Duration |-> SampleDuration(nextDTS, curDTS),
                       Size |-> SampleSize(pkt),
                       Flags |-> SampleFlags(pkt, defaultFlags),
                       CTS |-> EntryCTS(pkt, scale)]
             run1 == IF i = 0 THEN [track.Run EXCEPT !.FirstSampleFlags = entry.Flags]
                     ELSE track.Run
             run2 == RunAfterCTS(run1, pkt, scale)
             next == [track EXCEPT !.Header = HeaderAfter(track.Header, i, entry),
                                   !.Run = [run2 EXCEPT !.Entries[i + 1] = entry]]
         IN AddSamples(next, pend, i + 1, entryCount, nextDTS, scale, defaultFlags)

\* makefragment.go:94-99
WithSizeFlags(track) ==
    IF track.Header.DefaultSize # 0
    THEN [track EXCEPT !.Header.Flags = @ \cup {"TrackFragDefaultSize"}]
    ELSE [track EXCEPT !.Run.Flags = @ \cup {"TrackRunSampleSize"}]

\* makefragment.go:100-105
WithDurationFlags(track) ==
    IF track.Header.DefaultDuration # 0
    THEN [track EXCEPT !.Header.Flags = @ \cup {"TrackFragDefaultDuration"}]
    ELSE [track EXCEPT !.Run.Flags = @ \cup {"TrackRunSampleDuration"}]

\* makefragment.go:106-115
WithFlagsFlags(track) ==
    IF track.Header.DefaultFlags # 0
    THEN [track EXCEPT !.Header.Flags = @ \cup {"TrackFragDefaultFlags"},
                       !.Run.Flags = IF track.Run.FirstSampleFlags # track.Header.DefaultFlags
                                     THEN @ \cup {"TrackRunFirstSampleFlags"} ELSE @]
    ELSE [track EXCEPT !.Run.Flags = @ \cup {"TrackRunSampleFlags"}]

\* a fragment that stops one packet early when it can
EntryCount_StopEarly(pend) == IF Len(pend) > 2 THEN Len(pend) - 2 ELSE Len(pend) - 1
\* makefragment.go:21: how many of the pending packets a fragment takes
EntryCount(pend) == Len(pend) - 1

\* makefragment.go:17-119: the fragmentWithData makeFragment returns
MakeFragmentResult(pend, scale, video) ==
    IF Len(pend) < 2 THEN NoResult
    ELSE LET entryCount == EntryCount(pend)
             startDTS == ToScale(pend[1].Time, scale)
             track == AddSamples(NewTrackFrag(startDTS, entryCount), pend, 0, entryCount,
                                 startDTS, scale, DefaultSampleFlags(video))
         IN [trackFrag |-> << WithFlagsFlags(WithDurationFlags(WithSizeFlags(track))) >>,
             packets |-> SubSeq(pend, 1, entryCount)]

\* a makeFragment that drops the lone pending packet when it has no fragment to make
MakeFragmentPending_Drop(pend) ==
    IF Len(pend) < 2 THEN << >> ELSE << pend[EntryCount(pend) + 1] >>

\* makefragment.go:18-20, 120: f.pending after makeFragment
MakeFragmentPending(pend) ==
    IF Len(pend) < 2 THEN pend ELSE << pend[EntryCount(pend) + 1] >>

\* NewTrackFragmenter: nothing pending (and a new segment that stays untouched)
FragInit ==
    /\ \E t \in Tracks : timeScale = t.timeScale /\ isVideo = t.isVideo
    /\ pending = << >>
    /\ flast = "none"
    /\ result = NoResult
    /\ start = 0
    /\ parts = << >>
    /\ f = "open"
    /\ final = FALSE
    /\ size = 0
    /\ dur = 0
    /\ mu = "free"
    /\ store = << >>
    /\ committed = {}
    /\ ppc = "idle"
    /\ call = NoCall
    /\ ret = "none"
    /\ rpc = "idle"
    /\ obs = NoObs
    /\ wtracks = << >>
    /\ wbuf = << >>
    /\ wmarshal = << >>
    /\ wpc = "idle"
    /\ wpos = [track |-> 0, packet |-> 0]
    /\ sink = << >>
    /\ wlog = << >>
    /\ wret = [returned |-> FALSE, err |-> FALSE, write |-> 0]
    /\ name = << >>
    /\ built = [by |-> "none", id |-> 0, part |-> 0]
    /\ parsed = [done |-> FALSE, id |-> 0, part |-> 0, ok |-> FALSE]
    /\ segid = 0
    /\ dcn = FALSE
    /\ baseName = <<"0">>
    /\ programTime = ""
    /\ fpc = "idle"
    /\ fargs = FALSE
    /\ out = << >>
    /\ arrived = << >>
    /\ frags = << >>

\* the caller hands the next packet of the track, in increasing decode-time order;
\* the value the previous call returned has been consumed by then
WritePacket(pkt) ==
    /\ Len(pending) < MaxPending
    /\ Len(pending) > 0 => pkt.Time > pending[Len(pending)].Time
    /\ pending' = Append(pending, pkt)
    /\ flast' = "WritePacket"
    /\ result' = NoResult
    /\ UNCHANGED <<timeScale, isVideo>>
    /\ UNCHANGED notFragVars

\* makefragment.go:17-122
MakeFragment ==
    /\ result' = MakeFragmentResult(pending, timeScale, isVideo)
    /\ pending' = MakeFragmentPending(pending)
    /\ flast' = "makeFragment"
    /\ UNCHANGED <<timeScale, isVideo>>
    /\ UNCHANGED notFragVars

\* =====================================================================
\*  writeFragment
\* =====================================================================

\* fmp4io box lengths: tfhd, trun, traf and moof grow with the optional fields
\* their flags select
TfhdLen(tf) ==
    16 + 4 * Cardinality(tf.Header.Flags \cap
                {"TrackFragDefaultDuration", "TrackFragDefaultSize", "TrackFragDefaultFlags"})
TrunLen(tf) ==
    16 + 4 * Cardinality(tf.Run.Flags \cap {"TrackRunDataOffset", "TrackRunFirstSampleFlags"})
       + 4 * Len(tf.Run.Entries) * Cardinality(tf.Run.Flags \cap
                {"TrackRunSampleDuration", "TrackRunSampleSize", "TrackRunSampleFlags",
                 "TrackRunSampleCTS"})
TrackFragLen(tf) == 8 + TfhdLen(tf) + 20 + TrunLen(tf)

RECURSIVE TrackFragsLen(_)
TrackFragsLen(trs) ==
    IF trs = << >> THEN 0 ELSE TrackFragLen(trs[1].trackFrag[1]) + TrackFragsLen(Tail(trs))

\* moof.Len(): the moof header, the mfhd box and the track fragments
MoofLen(trs) == 8 + 16 + TrackFragsLen(trs)

\* the bytes moof.Marshal puts into b[0:moof.Len()]
MoofBytes(trs) == [k \in 1..MoofLen(trs) |-> 0]

\* fmp4io.MDAT, the tag 'mdat'
MDAT == 1835295092

\* pio.PutU32BE: four bytes, most significant first
PutU32BE(v) ==
    << (v \div 16777216) % 256, (v \div 65536) % 256, (v \div 256) % 256, v % 256 >>

RECURSIVE PayloadLen(_)
\* makefragment.go:140-142: the payload bytes of a track's packets
PayloadLen(pkts) ==
    IF pkts = << >> THEN 0 ELSE Len(pkts[1].Data) + PayloadLen(Tail(pkts))

RECURSIVE TotalPayloadLen(_)
TotalPayloadLen(trs) ==
    IF trs = << >> THEN 0 ELSE PayloadLen(trs[1].packets) + TotalPayloadLen(Tail(trs))

RECURSIVE AssignOffsets(_, _, _)
\* makefragment.go:137-143: each track's run gets the running offset, from track i on
AssignOffsets(trs, i, dataOffset) ==
    IF i > Len(trs) THEN trs
    ELSE AssignOffsets([trs EXCEPT ![i].trackFrag[1].Run.DataOffset = dataOffset],
                       i + 1, dataOffset + PayloadLen(trs[i].packets))

\* tracks that are serialized before their offsets are assigned
SerializedTracks_Unassigned(trs, dataBase) == trs

\* makefragment.go:136-146: the tracks as moof.Marshal finds them
SerializedTracks(trs, dataBase) == AssignOffsets(trs, 1, dataBase)

\* makefragment.go:145-148: b after the moof and the mdat header are in it
HeaderBuffer(trs, dataBase, dataOffset) ==
    MoofBytes(trs) \o PutU32BE(dataOffset - dataBase + 8) \o PutU32BE(MDAT)

\* makefragment.go:154: on entering track i of the write loop its run's offset is set again
EnterTrack(trs, i, dataOffset) ==
    IF i <= Len(trs) THEN [trs EXCEPT ![i].trackFrag[1].Run.DataOffset = dataOffset] ELSE trs

\* a write error that is dropped: the loop goes on
AfterWriteError_Continue(pc) == pc

\* makefragment.go:149-151, 156-158: a failed Write returns from writeFragment
AfterWriteError(pc) == "done"

NoReturn == [returned |-> FALSE, err |-> FALSE, write |-> 0]

\* the fragments handed to writeFragment: what makeFragment gives the video track for
\* 1..MaxSamples key frames one tick apart and one lookahead packet
WritePendings ==
    UNION { [1..n -> Payloads] : n \in 2..(MaxSamples + 1) }
WriteFragments ==
    { MakeFragmentResult([i \in 1..Len(d) |->
                             [Time |-> i - 1, CompositionTime |-> 0, Data |-> d[i],
                              IsKeyFrame |-> TRUE]], 2, TRUE) : d \in WritePendings }
WriteInputs == UNION { [1..n -> WriteFragments] : n \in 1..MaxTracks }

\* nothing has been written (and a segment and a fragmenter that stay untouched)
WriteInit ==
    /\ wtracks = << >>
    /\ wbuf = << >>
    /\ wmarshal = << >>
    /\ wpc = "idle"
    /\ wpos = [track |-> 0, packet |-> 0]
    /\ sink = << >>
    /\ wlog = << >>
    /\ wret = NoReturn
    /\ start = 0
    /\ parts = << >>
    /\ f = "open"
    /\ final = FALSE
    /\ size = 0
    /\ dur = 0
    /\ mu = "free"
    /\ store = << >>
    /\ committed = {}
    /\ ppc = "idle"
    /\ call = NoCall
    /\ ret = "none"
    /\ rpc = "idle"
    /\ obs = NoObs
    /\ timeScale = 1
    /\ isVideo = FALSE
    /\ pending = << >>
    /\ flast = "none"
    /\ result = NoResult
    /\ name = << >>
    /\ built = [by |-> "none", id |-> 0, part |-> 0]
    /\ parsed = [done |-> FALSE, id |-> 0, part |-> 0, ok |-> FALSE]
    /\ segid = 0
    /\ dcn = FALSE
    /\ baseName = <<"0">>
    /\ programTime = ""
    /\ fpc = "idle"
    /\ fargs = FALSE
    /\ out = << >>
    /\ arrived = << >>
    /\ frags = << >>

\* makefragment.go:124-148: up to the first Write
WriteFragmentCall(trs) ==
    /\ wpc = "idle"
    /\ LET dataBase == MoofLen(trs) + 8
           dataOffset == dataBase + TotalPayloadLen(trs)
           seen == SerializedTracks(trs, dataBase)
       IN /\ wtracks' = AssignOffsets(trs, 1, dataBase)
          /\ wmarshal' = [i \in 1..Len(trs) |-> seen[i].trackFrag[1].Run.DataOffset]
          /\ wbuf' = HeaderBuffer(trs, dataBase, dataOffset)
    /\ wpc' = "header"
    /\ UNCHANGED <<wpos, sink, wlog, wret>>
    /\ UNCHANGED notWriteVars

\* makefragment.go:149: w.Write(b) succeeds; the loop over the tracks begins
WriteHeaderOk ==
    /\ wpc = "header"
    /\ sink' = sink \o wbuf
    /\ wlog' = Append(wlog, "ok")
    /\ wtracks' = EnterTrack(wtracks, 1, Len(wbuf) + TotalPayloadLen(wtracks))
    /\ wpos' = [track |-> 1, packet |-> 1]
    /\ wpc' = "data"
    /\ UNCHANGED <<wbuf, wmarshal, wret>>
    /\ UNCHANGED notWriteVars

\* makefragment.go:149-151: w.Write(b) fails, having let through none or all but one of the bytes
WriteHeaderFail ==
    /\ wpc = "header"
    /\ \E n \in {0, Len(wbuf) - 1} : sink' = sink \o SubSeq(wbuf, 1, n)
    /\ wlog' = Append(wlog, "fail")
    /\ wret' = [returned |-> TRUE, err |-> TRUE, write |-> Len(wlog) + 1]
    /\ wpc' = AfterWriteError(wpc)
    /\ UNCHANGED <<wtracks, wbuf, wmarshal, wpos>>
    /\ UNCHANGED notWriteVars

\* makefragment.go:153-161: w.Write(pkt.Data) succeeds; next packet, next track or return nil
WritePayloadOk ==
    /\ wpc = "data"
    /\ LET t == wpos.track
           p == wpos.packet
       IN /\ sink' = sink \o wtracks[t].packets[p].Data
          /\ wlog' = Append(wlog, "ok")
          /\ IF p < Len(wtracks[t].packets)
             THEN /\ wpos' = [track |-> t, packet |-> p + 1]
                  /\ UNCHANGED <<wtracks, wpc, wret>>
             ELSE IF t < Len(wtracks)
             THEN /\ wpos' = [track |-> t + 1, packet |-> 1]
                  /\ wtracks' = EnterTrack(wtracks, t + 1, Len(wbuf) + TotalPayloadLen(wtracks))
                  /\ UNCHANGED <<wpc, wret>>
             ELSE /\ wpc' = "done"
                  /\ wret' = [returned |-> TRUE, err |-> FALSE, write |-> 0]
                  /\ UNCHANGED <<wtracks, wpos>>
    /\ UNCHANGED <<wbuf, wmarshal>>
    /\ UNCHANGED notWriteVars

\* makefragment.go:156-158: w.Write(pkt.Data) fails
WritePayloadFail ==
    /\ wpc = "data"
    /\ LET data == wtracks[wpos.track].packets[wpos.packet].Data
       IN \E n \in {0, Len(data) - 1} : n >= 0 /\ sink' = sink \o SubSeq(data, 1, n)
    /\ wlog' = Append(wlog, "fail")
    /\ wret' = [returned |-> TRUE, err |-> TRUE, write |-> Len(wlog) + 1]
    /\ wpc' = AfterWriteError(wpc)
    /\ UNCHANGED <<wtracks, wbuf, wmarshal, wpos>>
    /\ UNCHANGED notWriteVars

(***************************************************************************)
(* File names (segment.go:36-42, 56-75, 142-147).  A name is a sequence of *)
(* characters.  New and Format build names from an id and a part index;    *)
(* ParseName takes any name, as it comes from a request path.              *)
(***************************************************************************)
\* the digits strconv writes, in value order, and the upper-case letters it
\* also reads
LowerDigits ==
    <<"0", "1", "2", "3", "4", "5", "6", "7", "8", "9",
      "a", "b", "c", "d", "e", "f", "g", "h", "i", "j", "k", "l", "m",
      "n", "o", "p", "q", "r", "s", "t", "u", "v", "w", "x", "y", "z">>
UpperLetters ==
    <<"A", "B", "C", "D", "E", "F", "G", "H", "I", "J", "K", "L", "M",
      "N", "O", "P", "Q", "R", "S", "T", "U", "V", "W", "X", "Y", "Z">>

\* strconv.ParseUint's digit value of one character; -1 for a character that
\* is no digit in any base (with an explicit base the underscore is one)
DigitVal(c) ==
    IF \E i \in 1..Len(LowerDigits) : LowerDigits[i] = c
    THEN (CHOOSE i \in 1..Len(LowerDigits) : LowerDigits[i] = c) - 1
    ELSE IF \E i \in 1..Len(UpperLetters) : UpperLetters[i] = c
         THEN (CHOOSE i \in 1..Len(UpperLetters) : UpperLetters[i] = c) + 9
         ELSE -1

RECURSIVE ParseDigits(_, _, _)
ParseDigits(str, base, acc) ==
    IF str = << >> THEN [err |-> FALSE, n |-> acc]
    ELSE LET d == DigitVal(Head(str))
         IN IF d < 0 \/ d >= base THEN [err |-> TRUE, n |-> 0]
            ELSE ParseDigits(Tail(str), base, acc * base + d)

\* strconv.ParseUint(str, base, 64) for the lengths modelled (no range error)
ParseUint(str, base) ==
    IF str = << >> THEN [err |-> TRUE, n |-> 0] ELSE ParseDigits(str, base, 0)

\* strconv.ParseInt(str, base, 64): optional sign, then ParseUint
ParseInt(str, base) ==
    IF str = << >> THEN [err |-> TRUE, n |-> 0]
    ELSE LET neg == Head(str) = "-"
             body == IF Head(str) \in {"+", "-"} THEN Tail(str) ELSE str
             un == ParseUint(body, base)
         IN IF un.err THEN [err |-> TRUE, n |-> 0]
            ELSE [err |-> FALSE, n |-> IF neg THEN 0 - un.n ELSE un.n]

RECURSIVE FormatUint(_, _)
FormatUint(n, base) ==
    IF n < base THEN <<LowerDigits[n + 1]>>
    ELSE FormatUint(n \div base, base) \o <<LowerDigits[(n % base) + 1]>>

\* strconv.FormatInt(n, base), and fmt's %d with base 10
FormatInt(n, base) ==
    IF n < 0 THEN <<"-">> \o FormatUint(0 - n, base) ELSE FormatUint(n, base)

\* strings.Split(str, ".")
RECURSIVE Split(_)
Split(str) ==
    IF \A i \in 1..Len(str) : str[i] # "." THEN <<str>>
    ELSE LET k == CHOOSE i \in 1..Len(str) :
                      str[i] = "." /\ \A j \in 1..(i - 1) : str[j] # "."
         IN <<SubSeq(str, 1, k - 1)>> \o Split(SubSeq(str, k + 1, Len(str)))

RECURSIVE Join(_)
Join(comps) ==
    IF Len(comps) = 1 THEN comps[1]
    ELSE comps[1] \o <<".">> \o Join(Tail(comps))

\* segment.go:38: baseName is the id in base 36
BaseNameBase == 36
BaseName(i) == FormatInt(i, BaseNameBase)
\* segment.go:58, 143, 147: the extension of every name
Ext == <<"m", "4", "s">>
\* segment.go:147: "%s.m4s"
SegmentName(i) == Join(<<BaseName(i), Ext>>)
\* segment.go:142-143: "%s.%d.m4s"
PartName(i, k) == Join(<<BaseName(i), FormatInt(k, 10), Ext>>)

\* segment.go:58: 2 or 3 components, the last one "m4s"
ValidShape_AnyExtension(comps) == ~(Len(comps) < 2 \/ Len(comps) > 3)
ValidShape(comps) ==
    ~(Len(comps) < 2 \/ Len(comps) > 3 \/ comps[Len(comps)] # Ext)

\* segment.go:61 and 66: the bases of the two numbers; 72: the part of a name
\* without a part component
PartBase == 10
NoPart == -1
\* the id read in the base of the part
IdBase_Decimal == PartBase
IdBase == 36

\* segment.go:56-75.  id, part and ok are named results: a return before they
\* are assigned gives their zero values, and an assignment from a failed
\* ParseInt gives what ParseInt returned with the error.
ParseName(n) ==
    LET comps == Split(n)
    IN IF ~ValidShape(comps)
       THEN [done |-> TRUE, id |-> 0, part |-> 0, ok |-> FALSE]
       ELSE LET i == ParseInt(comps[1], IdBase)
            IN IF i.err
               THEN [done |-> TRUE, id |-> i.n, part |-> 0, ok |-> FALSE]
               ELSE IF Len(comps) = 3
                    THEN LET k == ParseInt(comps[2], PartBase)
                         IN [done |-> TRUE, id |-> i.n, part |-> k.n,
                             ok |-> ~k.err]
                    ELSE [done |-> TRUE, id |-> i.n, part |-> NoPart,
                          ok |-> TRUE]

\* the components of the names a request may carry: empty, the extension and
\* a near miss, numbers in either case, signed numbers, an underscore
NameComponents ==
    {<< >>, Ext, <<"m", "4">>, <<"9", "0">>, <<"1", "Z">>, <<"-", "1">>,
     <<"+", "2">>, <<"1", "_">>}
Names ==
    {Join(c) : c \in UNION {[1..k -> NameComponents] : k \in 1..MaxComponents}}

NotBuilt == [by |-> "none", id |-> 0, part |-> 0]
NotParsed == [done |-> FALSE, id |-> 0, part |-> 0, ok |-> FALSE]

NameInit ==
    /\ name = << >>
    /\ built = NotBuilt
    /\ parsed = NotParsed
    /\ start = 0
    /\ parts = << >>
    /\ f = NilBytes
    /\ final = FALSE
    /\ size = 0
    /\ dur = 0
    /\ mu = "free"
    /\ store = << >>
    /\ committed = {}
    /\ ppc = "idle"
    /\ call = NoCall
    /\ ret = "none"
    /\ rpc = "idle"
    /\ obs = NoObs
    /\ timeScale = 1
    /\ isVideo = FALSE
    /\ pending = << >>
    /\ flast = "none"
    /\ result = NoResult
    /\ wtracks = << >>
    /\ wbuf = << >>
    /\ wmarshal = << >>
    /\ wpc = "idle"
    /\ wpos = [track |-> 0, packet |-> 0]
    /\ sink = << >>
    /\ wlog = << >>
    /\ wret = [returned |-> FALSE, err |-> FALSE, write |-> 0]
    /\ segid = 0
    /\ dcn = FALSE
    /\ baseName = <<"0">>
    /\ programTime = ""
    /\ fpc = "idle"
    /\ fargs = FALSE
    /\ out = << >>
    /\ arrived = << >>
    /\ frags = << >>

\* no name is at hand: the caller of ParseName has returned
NoName == name = << >> /\ built = NotBuilt /\ ~parsed.done

\* a name arrives in a request
RequestName ==
    /\ NoName
    /\ \E n \in Names : name' = n
    /\ built' = NotBuilt
    /\ parsed' = NotParsed
    /\ UNCHANGED notNameVars

\* segment.go:36-42, 147: the name of the whole segment with this id
BuildSegmentName(i) ==
    /\ NoName
    /\ name' = SegmentName(i)
    /\ built' = [by |-> "segment", id |-> i, part |-> NoPart]
    /\ parsed' = NotParsed
    /\ UNCHANGED notNameVars

\* segment.go:36-42, 142-143: the name of part k of the segment with this id
BuildPartName(i, k) ==
    /\ NoName
    /\ name' = PartName(i, k)
    /\ built' = [by |-> "part", id |-> i, part |-> k]
    /\ parsed' = NotParsed
    /\ UNCHANGED notNameVars

\* segment.go:56-75
ParseNameCall ==
    /\ ~parsed.done
    /\ parsed' = ParseName(name)
    /\ UNCHANGED <<name, built>>
    /\ UNCHANGED notNameVars

\* the caller of ParseName returns, and its name and results go with it
ParseNameDone ==
    /\ parsed.done
    /\ name' = << >>
    /\ built' = NotBuilt
    /\ parsed' = NotParsed
    /\ UNCHANGED notNameVars

(***************************************************************************)
(* Format (segment.go:127-149).  The buffer is modelled line by line; a    *)
(* line is its tag, and the values the format verbs print.  Durations are  *)
(* in whole seconds.                                                       *)
(***************************************************************************)
\* segment.go:43-45: the values New leaves in s.programTime
ProgramTimes == {"", "2020-01-01T00:00:00Z"}

Line(kind) ==
    [kind |-> kind, text |-> "", duration |-> 0, independent |-> FALSE, uri |-> << >>]

\* segment.go:130-132
ProgramTimeLines ==
    IF programTime # ""
    THEN << [Line("#EXT-X-PROGRAM-DATE-TIME") EXCEPT !.text = programTime] >>
    ELSE << >>

\* segment.go:133-135
DiscontinuityLines ==
    IF dcn THEN << Line("#EXT-X-DISCONTINUITY") >> ELSE << >>

\* part numbers that start at one
PartIndex_FromOne(i) == i
\* segment.go:137: range's index of the i-th part
PartIndex(i) == i - 1

\* segment.go:136-145
PartLines(includeParts) ==
    IF includeParts
    THEN [i \in 1..Len(parts) |->
             [Line("#EXT-X-PART") EXCEPT
                 !.duration = parts[i].Duration,
                 !.independent = parts[i].Independent,
                 !.uri = Join(<<baseName, FormatInt(PartIndex(i), 10), Ext>>)]]
    ELSE << >>

\* segment.go:146-148: the #EXTINF line and the line of the segment's name
SegmentLines ==
    IF final
    THEN << [Line("#EXTINF") EXCEPT !.duration = dur],
            [Line("URI") EXCEPT !.uri = Join(<<baseName, Ext>>)] >>
    ELSE << >>

FormatLines(includeParts) ==
    ProgramTimeLines \o DiscontinuityLines \o PartLines(includeParts) \o SegmentLines

\* segment.New of the segment with a two-digit base name, with either
\* discontinuity flag and with or without a program time (and a fragmenter, a
\* writer and a name parser that stay untouched)
FmtInit ==
    /\ segid = MaxId
    /\ dcn \in BOOLEAN
    /\ baseName = BaseName(segid)
    /\ programTime \in ProgramTimes
    /\ fpc = "idle"
    /\ fargs = FALSE
    /\ out = << >>
    /\ start = 0
    /\ parts = << >>
    /\ f = "open"
    /\ final = FALSE
    /\ size = 0
    /\ dur = 0
    /\ mu = "free"
    /\ store = << >>
    /\ committed = {}
    /\ ppc = "idle"
    /\ call = NoCall
    /\ ret = "none"
    /\ rpc = "idle"
    /\ obs = NoObs
    /\ timeScale = 1
    /\ isVideo = FALSE
    /\ pending = << >>
    /\ flast = "none"
    /\ result = NoResult
    /\ wtracks = << >>
    /\ wbuf = << >>
    /\ wmarshal = << >>
    /\ wpc = "idle"
    /\ wpos = [track |-> 0, packet |-> 0]
    /\ sink = << >>
    /\ wlog = << >>
    /\ wret = [returned |-> FALSE, err |-> FALSE, write |-> 0]
    /\ name = << >>
    /\ built = [by |-> "none", id |-> 0, part |-> 0]
    /\ parsed = [done |-> FALSE, id |-> 0, part |-> 0, ok |-> FALSE]
    /\ arrived = << >>
    /\ frags = << >>

\* segment.go:128: s.mu.Lock(), called with an empty buffer
FormatLock(includeParts) ==
    /\ fpc = "idle"
    /\ mu = "free"
    /\ mu' = "formatter"
    /\ fpc' = "locked"
    /\ fargs' = includeParts
    /\ out' = << >>
    /\ UNCHANGED <<start, parts, f, final, size, dur, store, committed, ppc, call,
                   ret, rpc, obs>>
    /\ UNCHANGED <<segid, dcn, baseName, programTime>>
    /\ UNCHANGED <<fragVars, writeVars, nameVars, chainVars>>

\* segment.go:129-149: the lines are written and the deferred Unlock runs
FormatBody ==
    /\ fpc = "locked"
    /\ out' = out \o FormatLines(fargs)
    /\ mu' = "free"
    /\ fpc' = "idle"
    /\ UNCHANGED <<start, parts, f, final, size, dur, store, committed, ppc, call,
                   ret, rpc, obs>>
    /\ UNCHANGED <<segid, dcn, baseName, programTime, fargs>>
    /\ UNCHANGED <<fragVars, writeVars, nameVars, chainVars>>

(***************************************************************************)
(* One track over many calls: WritePacket and makeFragment as above, with  *)
(* the history of what arrived and what was returned kept beside them.     *)
(***************************************************************************)
\* the packets of the history: payloads of 1 and 2 bytes, no composition offset
ChainPackets(times) ==
    [Time : times, CompositionTime : {0}, Data : {<<7>>, <<8, 9>>}, IsKeyFrame : BOOLEAN]

\* NewTrackFragmenter: nothing pending, nothing arrived, nothing returned
ChainInit ==
    /\ \E t \in Tracks : timeScale = t.timeScale /\ isVideo = t.isVideo
    /\ pending = << >>
    /\ flast = "none"
    /\ result = NoResult
    /\ arrived = << >>
    /\ frags = << >>
    /\ start = 0
    /\ parts = << >>
    /\ f = "open"
    /\ final = FALSE
    /\ size = 0
    /\ dur = 0
    /\ mu = "free"
    /\ store = << >>
    /\ committed = {}
    /\ ppc = "idle"
    /\ call = NoCall
    /\ ret = "none"
    /\ rpc = "idle"
    /\ obs = NoObs
    /\ wtracks = << >>
    /\ wbuf = << >>
    /\ wmarshal = << >>
    /\ wpc = "idle"
    /\ wpos = [track |-> 0, packet |-> 0]
    /\ sink = << >>
    /\ wlog = << >>
    /\ wret = [returned |-> FALSE, err |-> FALSE, write |-> 0]
    /\ name = << >>
    /\ built = [by |-> "none", id |-> 0, part |-> 0]
    /\ parsed = [done |-> FALSE, id |-> 0, part |-> 0, ok |-> FALSE]
    /\ segid = 0
    /\ dcn = FALSE
    /\ baseName = <<"0">>
    /\ programTime = ""
    /\ fpc = "idle"
    /\ fargs = FALSE
    /\ out = << >>

\* the next packet of the track arrives, later than every packet before it
ArrivePacket(pkt) ==
    /\ Len(pending) < MaxPending
    /\ Len(pending) > 0 => pkt.Time > pending[Len(pending)].Time
    /\ pending' = Append(pending, pkt)
    /\ arrived' = Append(arrived, pkt)
    /\ flast' = "WritePacket"
    /\ result' = NoResult
    /\ UNCHANGED <<timeScale, isVideo, frags>>
    /\ UNCHANGED <<segVars, writeVars, nameVars, fmtVars>>

\* makefragment.go:17-122, and the caller keeping what it got
TakeFragment ==
    /\ result' = MakeFragmentResult(pending, timeScale, isVideo)
    /\ pending' = MakeFragmentPending(pending)
    /\ flast' = "makeFragment"
    /\ frags' = IF result'.trackFrag = << >> THEN frags
                ELSE Append(frags, [frag |-> result', left |-> pending'])
    /\ UNCHANGED <<timeScale, isVideo, arrived>>
    /\ UNCHANGED <<segVars, writeVars, nameVars, fmtVars>>

SegNext ==
    \/ \E frag \in Frags : AppendLock(frag)
    \/ AppendMeta
    \/ AppendWriteOk
    \/ AppendWriteFail
    \/ \E n \in 0..MaxNext : FinalizeLock(n)
    \/ FinalizeBody
    \/ ReleaseLock
    \/ ReleaseBody
    \/ \E a \in Accessors : AccessorCall(a)
    \/ AccessorReturn

SegSpec == SegInit /\ [][SegNext]_vars

FragNext ==
    \/ \E pkt \in Packets(0..MaxTime) : WritePacket(pkt)
    \/ MakeFragment

FragSpec == FragInit /\ [][FragNext]_vars

WriteNext ==
    \/ \E trs \in WriteInputs : WriteFragmentCall(trs)
    \/ WriteHeaderOk
    \/ WriteHeaderFail
    \/ WritePayloadOk
    \/ WritePayloadFail

WriteSpec == WriteInit /\ [][WriteNext]_vars

NameNext ==
    \/ RequestName
    \/ \E i \in 0..MaxId : BuildSegmentName(i)
    \/ \E i \in 0..MaxId, k \in 0..MaxPart : BuildPartName(i, k)
    \/ ParseNameCall
    \/ ParseNameDone

NameSpec == NameInit /\ [][NameNext]_vars

FmtNext ==
    \/ \E frag \in Frags : AppendLock(frag)
    \/ AppendMeta
    \/ AppendWriteOk
    \/ AppendWriteFail
    \/ \E n \in 0..MaxNext : FinalizeLock(n)
    \/ FinalizeBody
    \/ ReleaseLock
    \/ ReleaseBody
    \/ \E includeParts \in BOOLEAN : FormatLock(includeParts)
    \/ FormatBody

FmtSpec == FmtInit /\ [][FmtNext]_vars

ChainNext ==
    \/ \E pkt \in ChainPackets(0..MaxTime) : ArrivePacket(pkt)
    \/ TakeFragment

ChainSpec == ChainInit /\ [][ChainNext]_vars

\* =====================================================================
\*  Properties of Segment (checked under SegSpec)
\* =====================================================================

\* the producer's step out of a locked section / out of the write
AppendReturned == ppc = "append_write" /\ ppc' = "idle"
FinalizeDone == ppc = "finalize_locked" /\ ppc' = "idle"

\* C1: when the reader's Parts() has returned k, the bytes of parts 1..k are
\* already in the backing store: Append writes before it makes the part visible.
C1_WriteBeforeVisible ==
    (obs.acc = "Parts" /\ f = "open") => \A i \in 1..obs.parts : i \in committed

\* C2: in every reachable state size is the sum of the lengths of the parts
\* whose bytes have been written to the backing store.
C2_SizeIsCommittedLength ==
    size = SumLengths(parts, committed)

\* C3: an Append whose store write fails returns the error and leaves no trace
\* of the part: parts and size are as before the call, or the store holds
\* exactly the bytes of the listed parts.
C3_FailedAppendInvisible ==
    [][(AppendReturned /\ ret' # "nil") =>
          \/ Len(parts') = call.preParts /\ size' = call.preSize
          \/ /\ committed' = 1..Len(parts')
             /\ Len(store') = SumLengths(parts', 1..Len(parts'))]_vars

\* C4: once final, always final, and the part list is closed: no later step
\* changes the number of parts or their lengths, and no listed part has a buffer.
C4_FinalIsClosed ==
    [][final =>
          /\ final'
          /\ Len(parts') = Len(parts)
          /\ \A i \in 1..Len(parts') :
                /\ parts'[i].Length = parts[i].Length
                /\ parts'[i].Bytes = NilBytes]_vars

\* C5: Finalize(next) on a segment with k parts and start s leaves final true,
\* k parts with nil buffers and unchanged length, duration and independent flag,
\* size and backing store unchanged, and dur = next - s when next > s; dur stays
\* what it was (zero on a segment not finalized before) when next <= s.
C5_Finalize ==
    [][FinalizeDone =>
          /\ final'
          /\ Len(parts') = Len(parts)
          /\ \A i \in 1..Len(parts) :
                /\ parts'[i].Bytes = NilBytes
                /\ parts'[i].Length = parts[i].Length
                /\ parts'[i].Duration = parts[i].Duration
                /\ parts'[i].Independent = parts[i].Independent
          /\ size' = size
          /\ store' = store
          /\ committed' = committed
          /\ call.next > start => dur' = call.next - start
          /\ call.next <= start => dur' = dur
          /\ (call.next <= start /\ ~final) => dur' = 0]_vars

\* a segment finalized after two successful Appends, with a positive duration
C5_Witness ==
    /\ final
    /\ ppc = "idle"
    /\ Len(parts) = 2
    /\ committed = {1, 2}
    /\ \A i \in 1..2 : parts[i].Bytes = NilBytes /\ parts[i].Length > 0
    /\ size = 3
    /\ start = 1
    /\ dur = 1

\* C6: after Release, in every later state, size is 0, the file handle is nil,
\* the part count is what it was, and a later Append's write fails.
C6_ReleasedIsInert ==
    [][f = "nil" =>
          /\ size' = 0
          /\ f' = "nil"
          /\ Len(parts') = Len(parts)
          /\ AppendReturned => ret' # "nil"]_vars

\* C7: Duration(), Final() and Parts() hold the lock while reading, so the
\* reader is never inside an accessor while Append or Finalize is inside its
\* critical section.
C7_AccessorsLocked ==
    rpc \in Accessors => ~(mu = "producer" /\ ppc \in {"append_locked", "finalize_locked"})

\* =====================================================================
\*  Properties of makeFragment (checked under FragSpec)
\* =====================================================================

RECURSIVE SumDurations(_)
SumDurations(es) ==
    IF es = << >> THEN 0 ELSE es[1].Duration + SumDurations(Tail(es))

\* a step that is a call of makeFragment
MakeFragmentStep == flast' = "makeFragment"

\* the last call was makeFragment and it returned a fragment
Emitted == flast = "makeFragment" /\ result.trackFrag # << >>

\* C8 as stated: with n >= 2 packets pending, makeFragment returns the first
\* n-1 packets, leaves 1 pending, and the sample durations sum to
\* ToScale(time of the last returned packet) - ToScale(time of the first).
C8_SumToLastReturned ==
    [][(MakeFragmentStep /\ Len(pending) >= 2) =>
          LET n == Len(pending) IN
          /\ result'.packets = SubSeq(pending, 1, n - 1)
          /\ pending' = << pending[n] >>
          /\ SumDurations(result'.trackFrag[1].Run.Entries)
               = ToScale(pending[n - 1].Time, timeScale) - ToScale(pending[1].Time, timeScale)]_vars

\* C8 amended: ... and the sample durations sum to ToScale(time of the packet
\* left pending) - ToScale(time of the first packet).
C8_SumToLookahead ==
    [][(MakeFragmentStep /\ Len(pending) >= 2) =>
          LET n == Len(pending) IN
          /\ result'.packets = SubSeq(pending, 1, n - 1)
          /\ Len(pending') = 1
          /\ pending' = << pending[n] >>
          /\ Len(result'.trackFrag[1].Run.Entries) = n - 1
          /\ SumDurations(result'.trackFrag[1].Run.Entries)
               = ToScale(pending[n].Time, timeScale) - ToScale(pending[1].Time, timeScale)]_vars

\* a fragment of three samples whose durations are not all zero
C8_Witness ==
    /\ Emitted
    /\ Len(result.packets) = 3
    /\ Len(pending) = 1
    /\ SumDurations(result.trackFrag[1].Run.Entries) = 3

\* C9: with fewer than 2 packets pending, makeFragment returns the empty
\* fragmentWithData and leaves the pending buffer as it was.
C9_NoFragment ==
    [][(MakeFragmentStep /\ Len(pending) < 2) =>
          /\ result' = NoResult
          /\ pending' = pending]_vars

\* makeFragment was called with one packet pending; the packet is still there
C9_Witness ==
    /\ flast = "makeFragment"
    /\ result = NoResult
    /\ Len(pending) = 1

\* the samples of the emitted run agree on a field
UniformSize(es) == \A i, j \in 1..Len(es) : es[i].Size = es[j].Size
UniformDuration(es) == \A i, j \in 1..Len(es) : es[i].Duration = es[j].Duration

\* the header carries the default with value v and the run has no per-sample field
SizeInHeader(tf, v) ==
    /\ "TrackFragDefaultSize" \in tf.Header.Flags
    /\ tf.Header.DefaultSize = v
    /\ "TrackRunSampleSize" \notin tf.Run.Flags
DurationInHeader(tf, v) ==
    /\ "TrackFragDefaultDuration" \in tf.Header.Flags
    /\ tf.Header.DefaultDuration = v
    /\ "TrackRunSampleDuration" \notin tf.Run.Flags

\* the header carries no default and the run has the per-sample field
SizePerSample(tf) ==
    /\ "TrackFragDefaultSize" \notin tf.Header.Flags
    /\ "TrackRunSampleSize" \in tf.Run.Flags
DurationPerSample(tf) ==
    /\ "TrackFragDefaultDuration" \notin tf.Header.Flags
    /\ "TrackRunSampleDuration" \in tf.Run.Flags

\* C10 as stated: for size and for duration, samples that all have the same
\* value (0 included) give the header default with that value and no per-sample
\* flag; samples that differ give the per-sample flag and no header default.
C10_UniformAnyValue ==
    Emitted =>
        LET tf == result.trackFrag[1]
            es == tf.Run.Entries
        IN /\ IF UniformSize(es) THEN SizeInHeader(tf, es[1].Size) ELSE SizePerSample(tf)
           /\ IF UniformDuration(es) THEN DurationInHeader(tf, es[1].Duration)
              ELSE DurationPerSample(tf)

\* C10 amended: samples that all have the same value other than 0 give the
\* header default with that value and no per-sample flag; samples that differ,
\* or are all 0, give the per-sample flag and no header default.
C10_UniformNonZero ==
    Emitted =>
        LET tf == result.trackFrag[1]
            es == tf.Run.Entries
        IN /\ IF UniformSize(es) /\ es[1].Size # 0
              THEN SizeInHeader(tf, es[1].Size) ELSE SizePerSample(tf)
           /\ IF UniformDuration(es) /\ es[1].Duration # 0
              THEN DurationInHeader(tf, es[1].Duration) ELSE DurationPerSample(tf)

\* three samples of one size other than 0 whose durations differ
C10_Witness ==
    /\ Emitted
    /\ LET tf == result.trackFrag[1]
           es == tf.Run.Entries
       IN /\ Len(es) = 3
          /\ UniformSize(es) /\ es[1].Size = 2
          /\ ~UniformDuration(es)
          /\ SizeInHeader(tf, 2)
          /\ DurationPerSample(tf)

\* C11: the header carries the default-flags flag exactly when samples 1..N-1
\* agree on their flags (always when N = 1), with sample 1's flags as value
\* (sample 0's when N = 1); the run carries the first-sample-flags override
\* exactly when that default survived and sample 0's flags differ from it, and
\* per-sample flags exactly when the default did not survive.
C11_FlagsDefault ==
    Emitted =>
        LET tf == result.trackFrag[1]
            es == tf.Run.Entries
            N == Len(es)
            restAgree == \A i, j \in 2..N : es[i].Flags = es[j].Flags
            inHeader == "TrackFragDefaultFlags" \in tf.Header.Flags
        IN /\ inHeader <=> restAgree
           /\ inHeader => tf.Header.DefaultFlags = (IF N = 1 THEN es[1].Flags ELSE es[2].Flags)
           /\ ("TrackRunFirstSampleFlags" \in tf.Run.Flags)
                 <=> (inHeader /\ es[1].Flags # tf.Header.DefaultFlags)
           /\ ("TrackRunFirstSampleFlags" \in tf.Run.Flags) => tf.Run.FirstSampleFlags = es[1].Flags
           /\ ("TrackRunSampleFlags" \in tf.Run.Flags) <=> ~inHeader
           /\ ~(inHeader /\ "TrackRunSampleFlags" \in tf.Run.Flags)

\* a keyframe followed by two non-keyframes: header default plus first-sample override
C11_Witness ==
    /\ Emitted
    /\ LET tf == result.trackFrag[1]
           es == tf.Run.Entries
       IN /\ Len(es) = 3
          /\ es[1].Flags = SampleNoDependencies
          /\ es[2].Flags = SampleNonKeyframe
          /\ es[3].Flags = SampleNonKeyframe
          /\ "TrackFragDefaultFlags" \in tf.Header.Flags
          /\ "TrackRunFirstSampleFlags" \in tf.Run.Flags

\* C12: a consumed packet with a composition offset below zero makes the run
\* version 1; when every consumed packet has offset zero the run has no
\* per-sample composition-offset flag and stays at version 0.
C12_SignedVersion ==
    Emitted =>
        LET tf == result.trackFrag[1]
            ps == result.packets
        IN /\ (\E i \in 1..Len(ps) : ps[i].CompositionTime < 0) => tf.Run.Version = 1
           /\ (\A i \in 1..Len(ps) : ps[i].CompositionTime = 0) =>
                 /\ "TrackRunSampleCTS" \notin tf.Run.Flags
                 /\ tf.Run.Version = 0

\* on the 1-tick track a fragment whose second sample is half a second early
C12_Witness ==
    /\ Emitted
    /\ timeScale = 1
    /\ Len(result.packets) = 2
    /\ result.packets[1].CompositionTime = 2
    /\ result.packets[2].CompositionTime = -1
    /\ result.trackFrag[1].Run.Version = 1
    /\ "TrackRunSampleCTS" \in result.trackFrag[1].Run.Flags

\* =====================================================================
\*  Properties of writeFragment (checked under WriteSpec)
\* =====================================================================

\* the number four bytes hold, most significant first
ReadU32BE(b) == ((b[1] * 256 + b[2]) * 256 + b[3]) * 256 + b[4]

RECURSIVE PacketBytes(_)
\* the payloads of a track's packets, in packet order
PacketBytes(pkts) ==
    IF pkts = << >> THEN << >> ELSE pkts[1].Data \o PacketBytes(Tail(pkts))

RECURSIVE TrackBytes(_)
\* the payloads of all tracks, in track order
TrackBytes(trs) ==
    IF trs = << >> THEN << >> ELSE PacketBytes(trs[1].packets) \o TrackBytes(Tail(trs))

\* writeFragment has returned nil
WroteAll == wpc = "done" /\ wret.returned /\ ~wret.err

\* C13: when every write succeeds the sink holds dataBase + (sum of payload
\* lengths) bytes, dataBase being the moof length + 8; the four bytes at offset
\* dataBase - 8 hold (sum of payload lengths) + 8; the payloads follow the
\* header in track order and packet order; and each track's serialized data
\* offset is the position of that track's first payload byte.
C13_Layout ==
    WroteAll =>
        LET dataBase == MoofLen(wtracks) + 8
            total == Len(TrackBytes(wtracks))
        IN /\ Len(sink) = dataBase + total
           /\ ReadU32BE(SubSeq(sink, dataBase - 7, dataBase - 4)) = total + 8
           /\ SubSeq(sink, dataBase + 1, Len(sink)) = TrackBytes(wtracks)
           /\ \A i \in 1..Len(wtracks) :
                 /\ wmarshal[i] = dataBase + Len(TrackBytes(SubSeq(wtracks, 1, i - 1)))
                 /\ SubSeq(sink, wmarshal[i] + 1,
                           wmarshal[i] + Len(PacketBytes(wtracks[i].packets)))
                      = PacketBytes(wtracks[i].packets)

\* two tracks, both with payload, written in full
C13_Witness ==
    /\ WroteAll
    /\ Len(wtracks) = 2
    /\ Len(wtracks[1].packets) = 2
    /\ PacketBytes(wtracks[1].packets) = <<7, 8, 9>>
    /\ PacketBytes(wtracks[2].packets) = <<8, 9>>
    /\ wmarshal[2] = wmarshal[1] + 3
    /\ Len(wlog) = 4

\* C14: no partial fragment reaches the sink: a finished call either wrote the
\* whole box-plus-payload sequence, or returned an error with no write of the
\* call accepted before the failing one.
C14_AllOrNothing ==
    wpc = "done" =>
        \/ ~wret.err /\ sink = wbuf \o TrackBytes(wtracks)
        \/ wret.err /\ \A k \in 1..Len(wlog) : wlog[k] # "ok"

\* C15: the first failing write ends the call: it is the last write issued (no
\* later write, no second attempt), the call has returned, and the value
\* returned is that write's error.
C15_FirstErrorReturns ==
    /\ \A k \in 1..Len(wlog) :
          wlog[k] = "fail" =>
              /\ k = Len(wlog)
              /\ wpc = "done"
              /\ wret.returned /\ wret.err /\ wret.write = k
    /\ wret.err => (wret.write \in 1..Len(wlog) /\ wlog[wret.write] = "fail")

\* the header and the first payload went out, the second payload failed, and a
\* second track was never started
C15_Witness ==
    /\ wpc = "done"
    /\ wret.err
    /\ wlog = <<"ok", "ok", "fail">>
    /\ Len(wtracks) = 2
    /\ wpos = [track |-> 1, packet |-> 2]

(***************************************************************************)
(* ParseName                                                               *)
(***************************************************************************)
\* C16: ParseName inverts the naming convention: for id >= 0 the name
\* base36(id).m4s parses to (id, -1, true), and for part >= 0 the name
\* base36(id).decimal(part).m4s parses to (id, part, true).
C16_ParseInvertsName ==
    /\ (built.by = "segment" /\ parsed.done) =>
           /\ name = SegmentName(built.id)
           /\ parsed.ok /\ parsed.id = built.id /\ parsed.part = -1
    /\ (built.by = "part" /\ parsed.done) =>
           /\ name = PartName(built.id, built.part)
           /\ parsed.ok /\ parsed.id = built.id /\ parsed.part = built.part

C16_Witness ==
    /\ built.by = "part" /\ built.id >= 36 /\ built.part >= 10
    /\ parsed.done /\ parsed.ok
    /\ parsed.id = built.id /\ parsed.part = built.part

\* an optionally signed, non-empty run of digits of the base
IsInteger(str, base) ==
    LET body == IF str # << >> /\ Head(str) \in {"+", "-"}
                THEN Tail(str) ELSE str
    IN /\ body # << >>
       /\ \A i \in 1..Len(body) : DigitVal(body[i]) \in 0..(base - 1)

\* C17: ParseName returns ok = false for every name that, split on ".", has
\* not exactly 2 or 3 components, or whose last component is not m4s, or
\* whose first component is no base-36 integer, or (3 components) whose
\* second component is no base-10 integer.
C17_BadNameRejected ==
    LET comps == Split(name)
        bad == \/ Len(comps) \notin {2, 3}
               \/ comps[Len(comps)] # <<"m", "4", "s">>
               \/ ~IsInteger(comps[1], 36)
               \/ (Len(comps) = 3 /\ ~IsInteger(comps[2], 10))
    IN (parsed.done /\ bad) => ~parsed.ok

C17_Witness ==
    LET comps == Split(name)
    IN /\ parsed.done /\ ~parsed.ok
       /\ Len(comps) = 3
       /\ comps[3] = <<"m", "4", "s">>
       /\ IsInteger(comps[1], 36)
       /\ ~IsInteger(comps[2], 10)

\* C20: the part value -1 is reserved for whole-segment names: whenever
\* ParseName returns ok = true for a name of 3 components the part is >= 0.
C20_NoPartIsReserved ==
    (parsed.done /\ parsed.ok /\ Len(Split(name)) = 3) => parsed.part >= 0

(***************************************************************************)
(* Format                                                                  *)
(***************************************************************************)
\* the step in which Format writes its lines and returns
FormatReturned == fpc = "locked" /\ fpc' = "idle"

\* the positions of the lines of one kind, and the place of a kind in the
\* fixed order
LinesOf(o, kind) == {i \in 1..Len(o) : o[i].kind = kind}
KindRank(kind) ==
    CASE kind = "#EXT-X-PROGRAM-DATE-TIME" -> 1
      [] kind = "#EXT-X-DISCONTINUITY" -> 2
      [] kind = "#EXT-X-PART" -> 3
      [] kind = "#EXTINF" -> 4
      [] kind = "URI" -> 5

\* C18: whatever the segment's state and includeParts, Format's output has the
\* #EXTINF line followed by the <base36 id>.m4s line exactly when the segment
\* is final; one #EXT-X-PART line per part, in part order with URI index
\* 0..Parts()-1 and INDEPENDENT=YES on the independent parts only, exactly
\* when includeParts is true; the lines in the order program-date-time,
\* discontinuity, parts, EXTINF; and Format changes no field of the segment.
C18_Format ==
    [][FormatReturned =>
        LET o == out'
            partLines == LinesOf(o, "#EXT-X-PART")
            first == IF partLines = {} THEN 0
                     ELSE CHOOSE i \in partLines : \A j \in partLines : i <= j
        IN /\ (LinesOf(o, "#EXTINF") # {}) <=> final
           /\ (LinesOf(o, "URI") # {}) <=> final
           /\ final =>
                 /\ LinesOf(o, "#EXTINF") = {Len(o) - 1}
                 /\ LinesOf(o, "URI") = {Len(o)}
                 /\ o[Len(o)].uri = FormatInt(segid, 36) \o <<".", "m", "4", "s">>
           /\ Cardinality(partLines) = IF fargs THEN Len(parts) ELSE 0
           /\ partLines # {} => partLines = first..(first + Len(parts) - 1)
           /\ \A i \in partLines :
                 LET k == i - first
                 IN /\ o[i].uri = FormatInt(segid, 36) \o <<".">> \o FormatInt(k, 10)
                                      \o <<".", "m", "4", "s">>
                    /\ o[i].independent = parts[k + 1].Independent
                    /\ o[i].duration = parts[k + 1].Duration
           /\ (LinesOf(o, "#EXT-X-PROGRAM-DATE-TIME") # {}) <=> programTime # ""
           /\ (LinesOf(o, "#EXT-X-DISCONTINUITY") # {}) <=> dcn
           /\ \A i, j \in 1..Len(o) : i < j => KindRank(o[i].kind) < KindRank(o[j].kind)
                                              \/ (o[i].kind = "#EXT-X-PART"
                                                  /\ o[j].kind = "#EXT-X-PART")
           /\ UNCHANGED <<start, segid, dcn, baseName, programTime, parts, f, final,
                          size, dur>>]_vars

\* Format has returned every kind of line for a final segment of two parts
C18_Witness ==
    /\ fpc = "idle" /\ fargs
    /\ final /\ dcn /\ programTime # "" /\ segid >= 36
    /\ Len(parts) >= 2
    /\ Len(out) = Len(parts) + 4
    /\ out[3].kind = "#EXT-X-PART" /\ out[3].independent /\ ~out[4].independent

(***************************************************************************)
(* makeFragment over a sequence of calls                                   *)
(***************************************************************************)
RECURSIVE EmittedPackets(_)
\* the packets of the returned fragments, in the order of the fragments
EmittedPackets(fs) ==
    IF fs = << >> THEN << >> ELSE fs[1].frag.packets \o EmittedPackets(Tail(fs))

\* the fragments that hold a packet
Holders(pkt) ==
    {k \in 1..Len(frags) :
        \E j \in 1..Len(frags[k].frag.packets) : frags[k].frag.packets[j] = pkt}

\* C19: over packet arrivals at increasing times interleaved with makeFragment
\* calls on one track, every packet that has a successor is emitted in exactly
\* one fragment (once makeFragment has run), the fragments emit the packets
\* in arrival order with none lost or duplicated, the packet one fragment
\* leaves pending is sample 0 of the next, and the next fragment's base decode
\* time is the previous fragment's base decode time plus the sum of its
\* sample durations.
C19_Chain ==
    /\ arrived = EmittedPackets(frags) \o pending
    /\ \A i \in 1..Len(arrived) : Cardinality(Holders(arrived[i])) <= 1
    /\ flast = "makeFragment" =>
          \A i \in 1..(Len(arrived) - 1) : Cardinality(Holders(arrived[i])) = 1
    /\ arrived # << >> => Holders(arrived[Len(arrived)]) = {}
    /\ \A k \in 1..(Len(frags) - 1) :
          /\ Len(frags[k].left) = 1
          /\ frags[k + 1].frag.packets[1] = frags[k].left[1]
          /\ frags[k + 1].frag.trackFrag[1].DecodeTime.Time
               = frags[k].frag.trackFrag[1].DecodeTime.Time
                 + SumDurations(frags[k].frag.trackFrag[1].Run.Entries)

\* two fragments in a row, the first of two samples, with time passing in both
C19_Witness ==
    /\ Len(frags) = 2
    /\ Len(frags[1].frag.packets) = 2
    /\ frags[2].frag.packets[1] = frags[1].left[1]
    /\ SumDurations(frags[1].frag.trackFrag[1].Run.Entries) > 0
    /\ frags[2].frag.trackFrag[1].DecodeTime.Time > frags[1].frag.trackFrag[1].DecodeTime.Time
    /\ SumDurations(frags[2].frag.trackFrag[1].Run.Entries) > 0

====
